---------------------------- MODULE Spec2Model ----------------------------
(***************************************************************************)
(* Model of the simulation-and-control core of src/main.py (FlappyGame,    *)
(* Bird, PipePair, FlappyFaceApp): the physics step, the obstacle list,    *)
(* the difficulty ramp, the debounced flap, the predictive autopilot and   *)
(* the start / run / game-over state machine.                              *)
(*                                                                         *)
(* The program computes in floating point; the model computes the same     *)
(* expressions over the rationals, exactly, as scaled integers:            *)
(*   time      half milliseconds, 1/2000 s (dt, _time_since_last_spawn,    *)
(*             the spawn interval, MIN_FLAP_INTERVAL, the wall clock       *)
(*             time.time())                                                *)
(*   position  eightieths of a pixel (bird y, pipe x); Px(p) converts      *)
(*   velocity  pixels per second (bird.velocity)                           *)
(*   speed     fifths of a pixel per second (current_pipe_speed)           *)
(* A tick's dt is a whole number of frames of 1/16 s (Dt(n) time units),   *)
(* which keeps every one of these an integer: GRAVITY*dt = -30 px/s per    *)
(* frame, velocity*dt = 5*velocity eightieths per frame, speed*dt =        *)
(* speed-in-fifths eightieths per frame.  Such dt, and the heights and     *)
(* times they lead to, are also exact in binary floating point.  The       *)
(* autopilot's prediction, whose time_to_pipe is a quotient, is carried as *)
(* an integer part and a proper fraction.                                  *)
(***************************************************************************)
EXTENDS Integers, Sequences, FiniteSets

VARIABLES
    running,                 \* FlappyGame.running
    game_over,               \* FlappyGame.game_over
    score,                   \* FlappyGame.score
    bird_y,                  \* bird.y, eightieths of a pixel
    velocity,                \* bird.velocity, px/s
    pipes,                   \* FlappyGame.pipes: sequence of PipePair records
    created,                 \* PipePair objects constructed since the last start (object identity)
    time_since_last_spawn,   \* FlappyGame._time_since_last_spawn, 1/2000 s
    last_flap_time,          \* FlappyGame._last_flap_time, 1/2000 s
    now,                     \* the wall clock read by time.time(), 1/2000 s
    current_pipe_speed,      \* fifths of px/s
    current_pipe_gap,        \* px
    current_spawn_interval,  \* 1/2000 s
    initial_spacing_mult,    \* hundredths
    autoplay,                \* FlappyGame.autoplay
    splash_pending           \* FlappyFaceApp: the 6 s splash timer has not fired yet

vars == <<running, game_over, score, bird_y, velocity, pipes, created,
          time_since_last_spawn, last_flap_time, now, current_pipe_speed,
          current_pipe_gap, current_spawn_interval, initial_spacing_mult,
          autoplay, splash_pending>>

----------------------------------------------------------------------------
\* Program constants (src/main.py lines 52-80), in the units above.

WINDOW_WIDTH == 400

WINDOW_HEIGHT == 600

GRAVITY == -480

FLAP_VELOCITY == 380

\* BIRD_SIZE = (64, 64): the bird's width and height
BIRD_SIZE == 64

\* 0.18 s
MIN_FLAP_INTERVAL == 360

PIPE_MIN_GAP_Y == 60

\* PIPE_SPEED px/s, PIPE_GAP px, PIPE_SPAWN_INTERVAL 4.0 s, INITIAL_SPACING_MULT 1.3 in hundredths
EASY ==
    [PIPE_SPEED |-> 80, PIPE_GAP |-> 300, PIPE_SPAWN_INTERVAL |-> 8000,
     INITIAL_SPACING_MULT |-> 130]

\* 180.0 px/s, 200 px, 2.0 s, 1.05
HARD ==
    [PIPE_SPEED |-> 180, PIPE_GAP |-> 200, PIPE_SPAWN_INTERVAL |-> 4000,
     INITIAL_SPACING_MULT |-> 105]

RAMP_MAX_ADDITIONAL_SPEED == 80

RAMP_MAX_GAP_REDUCTION == 50

\* bird.pos = (100, ...): the bird's x never changes
BIRD_X == 100

\* int(WINDOW_WIDTH * 0.12): the width every PipePair is built with
PIPE_WIDTH == (WINDOW_WIDTH * 12) \div 100

\* int(WINDOW_WIDTH * 0.7): the least distance of a spawned pipe from the rightmost one
SPAWN_SPACING == (WINDOW_WIDTH * 7) \div 10

----------------------------------------------------------------------------
\* Bounds of the model.

\* the wall clock at construction (time.time() is far above MIN_FLAP_INTERVAL)
Epoch == 2000

\* one advance of the wall clock between two events (0.1 s)
ClockStep == 200

\* the last wall-clock reading the model explores
MaxNow == 4400

\* the dt values a tick is called with, in frames of 1/16 s
ShortDt == 10

LongDt == 12

DtFrames == {ShortDt, LongDt}

----------------------------------------------------------------------------
\* Units and small helpers.

Px(p) == 80 * p

\* n frames of 1/16 s, in time units
Dt(n) == 125 * n

Max(a, b) == IF a >= b THEN a ELSE b

Min(a, b) == IF a <= b THEN a ELSE b

\* random.randint(lo, hi) draws any integer of lo..hi; the model draws the two ends
RandInt(lo, hi) == {lo, hi}

----------------------------------------------------------------------------
\* PipePair

PipePair(id, x, gap_y, gap_size) ==
    [id |-> id, x |-> x, gap_y |-> gap_y, gap_size |-> gap_size, scored |-> FALSE]

\* PipePair.right
Right(p) == p.x + Px(PIPE_WIDTH)

\* an overlap test that counts touching boxes
Aabb_Touching(x1, y1, w1, h1, x2, y2, w2, h2) ==
    /\ x1 <= x2 + w2
    /\ x1 + w1 >= x2
    /\ y1 <= y2 + h2
    /\ y1 + h1 >= y2

\* the nested aabb of PipePair.collides_with: box 1 = (x1,y1,w1,h1), box 2 = (x2,y2,w2,h2)
Aabb(x1, y1, w1, h1, x2, y2, w2, h2) ==
    /\ x1 < x2 + w2
    /\ x1 + w1 > x2
    /\ y1 < y2 + h2
    /\ y1 + h1 > y2

\* a collision test that forgets the upper pipe
CollidesWith_BottomOnly(p, bx, by, bw, bh) ==
    Aabb(bx, by, bw, bh, p.x, 0, Px(PIPE_WIDTH), Px(p.gap_y))

\* PipePair.collides_with(bx, by, bw, bh), all in eightieths of a pixel
CollidesWith(p, bx, by, bw, bh) ==
    LET bottom_height == Px(p.gap_y)
        top_pos == Px(p.gap_y + p.gap_size)
        top_height == Px(WINDOW_HEIGHT) - top_pos
    IN  \/ Aabb(bx, by, bw, bh, p.x, 0, Px(PIPE_WIDTH), bottom_height)
        \/ Aabb(bx, by, bw, bh, p.x, top_pos, Px(PIPE_WIDTH), top_height)


----------------------------------------------------------------------------
\* FlappyGame._apply_difficulty: the four difficulty parameters for a score

\* a ramp that is not capped at 1.0
RampFactor_Uncapped(s) == Max(0, s - 30)

\* ramp_factor = min(1.0, extra / 50.0), in fiftieths
RampFactor(s) == Min(50, Max(0, s - 30))

ApplyDifficulty(s) ==
    IF s < 30
    THEN [speed |-> 5 * EASY.PIPE_SPEED,
          gap |-> EASY.PIPE_GAP,
          spawn_interval |-> EASY.PIPE_SPAWN_INTERVAL,
          spacing_mult |-> EASY.INITIAL_SPACING_MULT]
    ELSE LET ramp_factor == RampFactor(s)
         IN  [speed |-> 5 * HARD.PIPE_SPEED
                          + (5 * RAMP_MAX_ADDITIONAL_SPEED * ramp_factor) \div 50,
              \* int(max(60, ...)): the value is whole, int() truncates nothing
              gap |-> Max(60, HARD.PIPE_GAP
                               - (RAMP_MAX_GAP_REDUCTION * ramp_factor) \div 50),
              \* max(0.9, 2.0 - 0.8 * ramp_factor)
              spawn_interval |-> Max(1800, HARD.PIPE_SPAWN_INTERVAL
                                            - (1600 * ramp_factor) \div 50),
              spacing_mult |-> HARD.INITIAL_SPACING_MULT]

----------------------------------------------------------------------------
\* FlappyGame._can_flap_now / _flap, at wall-clock reading t with last accepted flap at last

\* a debounce that lets every request through
CanFlapNow_NoDebounce(t, last) == t - last >= 0

CanFlapNow(t, last) == t - last >= MIN_FLAP_INTERVAL

\* _last_flap_time after a call of _can_flap_now
LastFlapAfter(t, last) == IF CanFlapNow(t, last) THEN t ELSE last

\* a flap that adds its impulse to the velocity instead of replacing it
VelocityAfterFlap_Additive(t, last, v) ==
    IF t - last >= MIN_FLAP_INTERVAL THEN v + FLAP_VELOCITY ELSE v

\* bird.velocity after a call of _flap with the bird at velocity v (Bird.flap sets it)
VelocityAfterFlap(t, last, v) == IF CanFlapNow(t, last) THEN FLAP_VELOCITY ELSE v

----------------------------------------------------------------------------
\* Bird.physics_step(dt), dt = n frames

\* a physics step that leaves gravity out of the velocity
StepVelocity_NoGravity(v, n) == v

\* self.velocity += GRAVITY * dt
StepVelocity(v, n) == v + (GRAVITY * Dt(n)) \div 2000

\* self.y += self.velocity * dt, with the velocity already updated
StepY(y, v, n) == y + (StepVelocity(v, n) * Dt(n)) \div 25

----------------------------------------------------------------------------
\* FlappyGame._predict_center_with_flaps.
\*
\* A predicted height is a rational number of 1/2000 px, carried as
\* int + num/den with 0 <= num < den; every prediction of one tick has the same
\* den (the square of the pipe speed).

Frac(int, num, den) == [int |-> int, num |-> num, den |-> den]

\* a schedule that keeps every flap event, also those beyond time_to_pipe
FlapEvents_Unfiltered(dist, speed, n_flaps) == 0..(n_flaps - 1)

\* the 'flap' events of the schedule: flap i is at t = i * MIN_FLAP_INTERVAL and is
\* kept only if t < time_to_pipe, where time_to_pipe = horiz_dist / speed
\* = 125 * dist / speed time units, dist in eightieths of a pixel, speed in fifths
FlapEvents(dist, speed, n_flaps) ==
    {i \in 0..(n_flaps - 1) : i * MIN_FLAP_INTERVAL * speed < 125 * dist}

\* One pass of the event loop for a 'flap' event dt time units after the previous
\* event: y = y + v*dt + 0.5*GRAVITY*dt**2, in 1/2000 px; the velocity the loop
\* computes next is overwritten by v = FLAP_VELOCITY.
FlapEventY(y, v, dt) == y + v * dt + (GRAVITY * dt * dt) \div 4000

\* The last pass, for the 'end' event: dt = time_to_pipe - t_prev is the rational
\* (125*dist - t_prev*speed) / speed = 5*a / speed time units, and in 1/2000 px
\*   y + v*dt + 0.5*GRAVITY*dt**2 = y + 5*v*a/speed + (GRAVITY/160)*a*a/speed**2.
\* With a = q*speed + r the sum is split into its whole part and a fraction over
\* speed**2, which keeps every intermediate product small.
EndEventY(y, v, a, speed) ==
    LET h == GRAVITY \div 160
        q == a \div speed
        r == a % speed
        c == (5 * v + 2 * h * q) * r
        q2 == c \div speed
        r2 == c % speed
        R == r2 * speed + h * r * r
        den == speed * speed
    IN  Frac(y + 5 * v * q + h * q * q + q2 + (R \div den), R % den, den)

\* the loop over the first m 'flap' events (at 0, MIN_FLAP_INTERVAL, ...): the
\* height, in 1/2000 px, when the last of them is reached
RECURSIVE YAfterFlaps(_, _, _)
YAfterFlaps(y, v, m) ==
    IF m = 0 THEN y
    ELSE IF m = 1 THEN FlapEventY(y, v, 0)
    ELSE FlapEventY(YAfterFlaps(y, v, m - 1), FLAP_VELOCITY, MIN_FLAP_INTERVAL)

\* _predict_center_with_flaps(time_to_pipe, n_flaps) for the bird at height y
\* (eightieths of a pixel) and velocity v: the predicted centre
PredictCenterWithFlaps(y, v, dist, speed, n_flaps) ==
    LET m == Cardinality(FlapEvents(dist, speed, n_flaps))
        t_prev == IF m = 0 THEN 0 ELSE (m - 1) * MIN_FLAP_INTERVAL
        y_prev == YAfterFlaps(25 * y, v, m)
        v_prev == IF m = 0 THEN v ELSE FLAP_VELOCITY
        a == 25 * dist - (t_prev \div 5) * speed
        y_end == EndEventY(y_prev, v_prev, a, speed)
    IN  Frac(y_end.int + (2000 * BIRD_SIZE) \div 2, y_end.num, y_end.den)

----------------------------------------------------------------------------
\* FlappyGame._autoflap_logic

\* lo <= f <= hi for whole lo, hi
FracWithin(f, lo, hi) ==
    /\ lo <= f.int
    /\ f.int < hi \/ (f.int = hi /\ f.num = 0)

\* abs(f - c) for a whole c
FracAbsDiff(f, c) ==
    IF f.int >= c THEN Frac(f.int - c, f.num, f.den)
    ELSE IF f.num = 0 THEN Frac(c - f.int, 0, f.den)
    ELSE Frac(c - f.int - 1, f.den - f.num, f.den)

FracLess(f, g) == f.int < g.int \/ (f.int = g.int /\ f.num < g.num)

\* the first pipe of the list whose right edge is ahead of the bird's x; 0 if none
NextPipeIndex(ps) ==
    LET ahead == {i \in 1..Len(ps) : Right(ps[i]) > Px(BIRD_X)}
    IN  IF ahead = {} THEN 0 ELSE CHOOSE i \in ahead : \A j \in ahead : i <= j

\* a fallback loop that lets a later k replace an equally close earlier one
RECURSIVE BestK_LastOnTies(_, _, _, _, _, _, _, _)
BestK_LastOnTies(y, v, dist, speed, gap_center, k, best_k, best_dist) ==
    IF k > 3 THEN best_k
    ELSE LET d == FracAbsDiff(PredictCenterWithFlaps(y, v, dist, speed, k), gap_center)
         IN  IF best_k = -1 \/ ~FracLess(best_dist, d)
             THEN BestK_LastOnTies(y, v, dist, speed, gap_center, k + 1, k, d)
             ELSE BestK_LastOnTies(y, v, dist, speed, gap_center, k + 1, best_k, best_dist)

\* the fallback loop: best_k after looking at k, k+1, ..., max_flaps
RECURSIVE BestK(_, _, _, _, _, _, _, _)
BestK(y, v, dist, speed, gap_center, k, best_k, best_dist) ==
    IF k > 3 THEN best_k
    ELSE LET d == FracAbsDiff(PredictCenterWithFlaps(y, v, dist, speed, k), gap_center)
         IN  IF best_k = -1 \/ FracLess(d, best_dist)
             THEN BestK(y, v, dist, speed, gap_center, k + 1, k, d)
             ELSE BestK(y, v, dist, speed, gap_center, k + 1, best_k, best_dist)

\* chosen_flaps for the next pipe p, with the bird at height y and velocity v
ChosenFlaps(y, v, p, speed) ==
    LET gap_center == 2000 * p.gap_y + 1000 * p.gap_size
        half == 1000 * p.gap_size
        margin == 12000
        dist == p.x - Px(BIRD_X)
        inside == {k \in 0..3 :
                     FracWithin(PredictCenterWithFlaps(y, v, dist, speed, k),
                                gap_center - half + margin, gap_center + half - margin)}
    IN  IF inside # {} THEN CHOOSE k \in inside : \A j \in inside : k <= j
        ELSE BestK(y, v, dist, speed, gap_center, 0, -1, Frac(0, 0, 1))

\* an autopilot that flaps only when two or more flaps are planned
AutoflapLogic_TwoOrMore(y, v, ps, speed) ==
    /\ ps # << >>
    /\ NextPipeIndex(ps) # 0
    /\ speed > 0
    /\ ChosenFlaps(y, v, ps[NextPipeIndex(ps)], speed) >= 2

\* whether _autoflap_logic calls self._flap(), in a tick that is running
AutoflapLogic(y, v, ps, speed) ==
    /\ ps # << >>
    /\ NextPipeIndex(ps) # 0
    /\ speed > 0
    /\ ChosenFlaps(y, v, ps[NextPipeIndex(ps)], speed) >= 1

----------------------------------------------------------------------------
\* Game logic

params == <<current_pipe_speed, current_pipe_gap, current_spawn_interval,
            initial_spacing_mult>>

\* the launch height: WINDOW_HEIGHT // 2 - bird.height // 2
LaunchY == WINDOW_HEIGHT \div 2 - BIRD_SIZE \div 2

\* a pre-spawn that puts both pipes at the right edge
InitialPipes_NoSpacing(g1, g2) ==
    << PipePair(1, Px(WINDOW_WIDTH), g1, current_pipe_gap),
       PipePair(2, Px(WINDOW_WIDTH), g2, current_pipe_gap) >>

\* a pre-spawn that spaces the pipes by the pipe width instead of the window width
InitialPipes_Close(g1, g2) ==
    LET spacing == (PIPE_WIDTH * initial_spacing_mult) \div 100
    IN  << PipePair(1, Px(WINDOW_WIDTH), g1, current_pipe_gap),
           PipePair(2, Px(WINDOW_WIDTH + spacing), g2, current_pipe_gap) >>

\* a pre-spawn that builds the far pipe first
InitialPipes_FarFirst(g1, g2) ==
    LET spacing == (WINDOW_WIDTH * initial_spacing_mult) \div 100
    IN  << PipePair(1, Px(WINDOW_WIDTH + spacing), g1, current_pipe_gap),
           PipePair(2, Px(WINDOW_WIDTH), g2, current_pipe_gap) >>

\* the two pipes start_game pre-spawns, with gaps at g1 and g2
InitialPipes(g1, g2) ==
    LET spacing == (WINDOW_WIDTH * initial_spacing_mult) \div 100
    IN  << PipePair(1, Px(WINDOW_WIDTH), g1, current_pipe_gap),
           PipePair(2, Px(WINDOW_WIDTH + spacing), g2, current_pipe_gap) >>

\* a start_game that draws the gap position without making room for the gap
StartGame_GapIgnored ==
    \E g1, g2 \in RandInt(PIPE_MIN_GAP_Y + 20, WINDOW_HEIGHT - 40) :
        /\ pipes' = InitialPipes(g1, g2)
        /\ created' = 2
        /\ score' = 0
        /\ game_over' = FALSE
        /\ running' = TRUE
        /\ time_since_last_spawn' = 0
        /\ bird_y' = Px(LaunchY)
        /\ velocity' = 0
        /\ UNCHANGED <<params, last_flap_time, now>>

\* FlappyGame.start_game (with clear_pipes); it leaves the difficulty parameters,
\* _last_flap_time and autoplay as they are
StartGame ==
    \E g1, g2 \in RandInt(PIPE_MIN_GAP_Y + 20, WINDOW_HEIGHT - current_pipe_gap - 40) :
        /\ pipes' = InitialPipes(g1, g2)
        /\ created' = 2
        /\ score' = 0
        /\ game_over' = FALSE
        /\ running' = TRUE
        /\ time_since_last_spawn' = 0
        /\ bird_y' = Px(LaunchY)
        /\ velocity' = 0
        /\ UNCHANGED <<params, last_flap_time, now>>

\* FlappyGame.end_game
EndGame ==
    /\ game_over' = TRUE
    /\ running' = FALSE

\* FlappyGame._flap
Flap ==
    /\ velocity' = VelocityAfterFlap(now, last_flap_time, velocity)
    /\ last_flap_time' = LastFlapAfter(now, last_flap_time)

\* the pipes after p.move(dx) on each and the removal of those with right < -50
MovePipes(ps, dx) ==
    LET moved == [i \in 1..Len(ps) |-> [ps[i] EXCEPT !.x = @ + dx]]
    IN  SelectSeq(moved, LAMBDA p : ~(Right(p) < Px(-50)))

\* max([p.x for p in self.pipes]) if self.pipes else 0
Rightmost(ps) ==
    IF ps = << >> THEN 0
    ELSE LET xs == {ps[i].x : i \in 1..Len(ps)}
         IN  CHOOSE x \in xs : \A z \in xs : z <= x

\* a spawn test that waits for the accumulator to exceed the interval
SpawnDue_Strict(acc, interval) == acc > interval

\* whether the spawn branch of _update is taken, the accumulator being acc after += dt
SpawnDue(acc, interval) == acc >= interval

\* a spawn position that ignores the pipes already there
SpawnX_AtEdge(ps) == Px(WINDOW_WIDTH + 20)

\* spawn_x = max(WINDOW_WIDTH + 20, rightmost + int(WINDOW_WIDTH * 0.7))
SpawnX(ps) == Max(Px(WINDOW_WIDTH + 20), Rightmost(ps) + Px(SPAWN_SPACING))

\* a scoring condition without the scored flag
ShouldScore_Ungated(p) == Right(p) < Px(BIRD_X)

\* the scoring condition of the last loop of _update
ShouldScore(p) == ~p.scored /\ Right(p) < Px(BIRD_X)

\* The last loop of _update from pipe i on, the bird at height by: for each pipe, a
\* collision ends the loop (hit), otherwise the pipe is scored if it is due.
RECURSIVE ScanPipes(_, _, _, _)
ScanPipes(ps, i, by, sc) ==
    IF i > Len(ps) THEN [pipes |-> ps, score |-> sc, hit |-> FALSE]
    ELSE IF CollidesWith(ps[i], Px(BIRD_X), by, Px(BIRD_SIZE), Px(BIRD_SIZE))
    THEN [pipes |-> ps, score |-> sc, hit |-> TRUE]
    ELSE IF ShouldScore(ps[i])
    THEN ScanPipes([ps EXCEPT ![i].scored = TRUE], i + 1, by, sc + 1)
    ELSE ScanPipes(ps, i + 1, by, sc)

\* _update past the floor and ceiling checks: d the difficulty of this tick, v1 and
\* y1 the bird after physics_step, gap_y the random gap of a spawned pipe
UpdatePipes(n, d, v1, y1, gap_y) ==
    LET kept == MovePipes(pipes, -(d.speed * n))
        acc == time_since_last_spawn + Dt(n)
        spawn == SpawnDue(acc, d.spawn_interval)
        ps == IF spawn
              THEN Append(kept, PipePair(created + 1, SpawnX(kept), gap_y, d.gap))
              ELSE kept
        flaps == autoplay /\ AutoflapLogic(y1, v1, ps, d.speed)
        scan == ScanPipes(ps, 1, y1, score)
    IN  /\ time_since_last_spawn' = IF spawn THEN 0 ELSE acc
        /\ created' = IF spawn THEN created + 1 ELSE created
        /\ bird_y' = y1
        /\ velocity' = IF flaps THEN VelocityAfterFlap(now, last_flap_time, v1) ELSE v1
        /\ last_flap_time' = IF flaps THEN LastFlapAfter(now, last_flap_time)
                             ELSE last_flap_time
        /\ pipes' = scan.pipes
        /\ score' = scan.score
        /\ IF scan.hit THEN EndGame ELSE UNCHANGED <<running, game_over>>

\* an early return that lets a finished run through
UpdateReturnsEarly_IdleOnly == ~running /\ ~game_over

\* if self.bird.y <= 0
FloorHit(y1) == y1 <= 0

\* if self.bird.top >= WINDOW_HEIGHT
CeilingHit(y1) == y1 + Px(BIRD_SIZE) >= Px(WINDOW_HEIGHT)

\* a ceiling clamp that leaves the bird's bottom at the ceiling
CeilingY_Top == Px(WINDOW_HEIGHT)

\* self.bird.y = WINDOW_HEIGHT - self.bird.height
CeilingY == Px(WINDOW_HEIGHT - BIRD_SIZE)

\* whether _update returns at once
UpdateReturnsEarly == ~running \/ game_over

\* FlappyGame._update(dt), dt = n frames
Update(n) ==
    IF UpdateReturnsEarly THEN UNCHANGED vars
    ELSE LET d == ApplyDifficulty(score)
             v1 == StepVelocity(velocity, n)
             y1 == StepY(bird_y, velocity, n)
         IN  /\ current_pipe_speed' = d.speed
             /\ current_pipe_gap' = d.gap
             /\ current_spawn_interval' = d.spawn_interval
             /\ initial_spacing_mult' = d.spacing_mult
             /\ UNCHANGED <<now, autoplay, splash_pending>>
             /\ IF FloorHit(y1)
                THEN /\ bird_y' = 0
                     /\ velocity' = v1
                     /\ EndGame
                     /\ UNCHANGED <<score, pipes, created, time_since_last_spawn,
                                    last_flap_time>>
                ELSE IF CeilingHit(y1)
                THEN /\ bird_y' = CeilingY
                     /\ velocity' = v1
                     /\ EndGame
                     /\ UNCHANGED <<score, pipes, created, time_since_last_spawn,
                                    last_flap_time>>
                ELSE \E gap_y \in
                         IF SpawnDue(time_since_last_spawn + Dt(n), d.spawn_interval)
                         THEN RandInt(PIPE_MIN_GAP_Y + 10, WINDOW_HEIGHT - d.gap - 30)
                         ELSE {0} :
                         UpdatePipes(n, d, v1, y1, gap_y)

----------------------------------------------------------------------------
\* Events

\* _on_key_down with the space bar
KeySpace ==
    IF ~running /\ ~game_over
    THEN StartGame /\ UNCHANGED <<autoplay, splash_pending>>
    ELSE IF running
    THEN /\ Flap
         /\ UNCHANGED <<running, game_over, score, bird_y, pipes, created,
                        time_since_last_spawn, now, params, autoplay, splash_pending>>
    ELSE UNCHANGED vars

\* an 'a' key that starts a run whenever none is running, Ended included
KeyA_StartsWhenEnded ==
    /\ autoplay' = ~autoplay
    /\ splash_pending' = splash_pending
    /\ IF ~autoplay /\ ~running
       THEN StartGame
       ELSE UNCHANGED <<running, game_over, score, bird_y, velocity, pipes, created,
                        time_since_last_spawn, last_flap_time, now, params>>

\* _on_key_down with 'a' or 'A'
KeyA ==
    /\ autoplay' = ~autoplay
    /\ splash_pending' = splash_pending
    /\ IF ~autoplay /\ ~running /\ ~game_over
       THEN StartGame
       ELSE UNCHANGED <<running, game_over, score, bird_y, velocity, pipes, created,
                        time_since_last_spawn, last_flap_time, now, params>>

\* on_touch_down; the widget receives touches once the splash has handed over to it
TouchDown ==
    /\ ~splash_pending
    /\ IF ~running /\ ~game_over
       THEN StartGame /\ UNCHANGED <<autoplay, splash_pending>>
       ELSE IF running
       THEN /\ Flap
            /\ UNCHANGED <<running, game_over, score, bird_y, pipes, created,
                           time_since_last_spawn, now, params, autoplay, splash_pending>>
       ELSE UNCHANGED vars

\* start_button's on_release: the button is on screen after end_game ("Restart")
StartButton ==
    /\ ~splash_pending
    /\ ~running
    /\ StartGame
    /\ UNCHANGED <<autoplay, splash_pending>>

\* FlappyFaceApp._start_game_after_splash, once, 6 s after build
StartGameAfterSplash ==
    /\ splash_pending
    /\ splash_pending' = FALSE
    /\ StartGame
    /\ UNCHANGED autoplay

\* the Clock calls _update
Tick == \E n \in DtFrames : Update(n)

\* the wall clock advances
TimePasses ==
    /\ now + ClockStep <= MaxNow
    /\ now' = now + ClockStep
    /\ UNCHANGED <<running, game_over, score, bird_y, velocity, pipes, created,
                   time_since_last_spawn, last_flap_time, params, autoplay,
                   splash_pending>>

----------------------------------------------------------------------------
\* FlappyGame.__init__ and FlappyFaceApp.build
Init ==
    /\ running = FALSE
    /\ game_over = FALSE
    /\ score = 0
    /\ bird_y = Px(LaunchY)
    /\ velocity = 0
    /\ pipes = << >>
    /\ created = 0
    /\ time_since_last_spawn = 0
    /\ last_flap_time = 0
    /\ now = Epoch
    /\ current_pipe_speed = 5 * EASY.PIPE_SPEED
    /\ current_pipe_gap = EASY.PIPE_GAP
    /\ current_spawn_interval = EASY.PIPE_SPAWN_INTERVAL
    /\ initial_spacing_mult = EASY.INITIAL_SPACING_MULT
    /\ autoplay = FALSE
    /\ splash_pending = TRUE

Next ==
    \/ KeySpace
    \/ KeyA
    \/ TouchDown
    \/ StartButton
    \/ StartGameAfterSplash
    \/ Tick
    \/ TimePasses

Spec == Init /\ [][Next]_vars

----------------------------------------------------------------------------
\* A game in progress.
\*
\* Scores of 30 and more are over a hundred seconds of play away from the start.
\* SpecMid starts from two states of one recorded run of FlappyGame (dt = 1/16 s
\* throughout, manual flaps, every gap height a value random.randint can return):
\* the state after tick 1825, with score 29 and the 30th pipe ahead, and the state
\* after tick 3165, with score 79 and the 80th pipe over the bird's column.  The
\* clock is placed two steps before MaxNow, the last accepted flap as long ago as
\* it was in the run (0.4375 s and 1.125 s): the program reads the clock only
\* through that difference.

MidStates ==
    { [score |-> 29, bird_y |-> 36640, velocity |-> 140,
       pipes |-> << [id |-> 29, x |-> -5600, gap_y |-> 264, gap_size |-> 300,
                     scored |-> TRUE],
                    [id |-> 30, x |-> 20000, gap_y |-> 234, gap_size |-> 300,
                     scored |-> FALSE] >>,
       created |-> 30, acc |-> 4250, elapsed |-> 875,
       speed |-> 400, gap |-> 300, interval |-> 8000, mult |-> 130],
      [score |-> 79, bird_y |-> 28140, velocity |-> -190,
       pipes |-> << [id |-> 80, x |-> 7784, gap_y |-> 311, gap_size |-> 152,
                     scored |-> FALSE],
                    [id |-> 81, x |-> 33600, gap_y |-> 276, gap_size |-> 151,
                     scored |-> FALSE] >>,
       created |-> 81, acc |-> 0, elapsed |-> 2250,
       speed |-> 1292, gap |-> 151, interval |-> 2432, mult |-> 105] }

InitMid ==
    \E c \in MidStates :
        /\ running = TRUE
        /\ game_over = FALSE
        /\ score = c.score
        /\ bird_y = c.bird_y
        /\ velocity = c.velocity
        /\ pipes = c.pipes
        /\ created = c.created
        /\ time_since_last_spawn = c.acc
        /\ now = MaxNow - 2 * ClockStep
        /\ last_flap_time = now - c.elapsed
        /\ current_pipe_speed = c.speed
        /\ current_pipe_gap = c.gap
        /\ current_spawn_interval = c.interval
        /\ initial_spacing_mult = c.mult
        /\ autoplay = FALSE
        /\ splash_pending = FALSE

\* the events of a game in progress: the splash timer has fired
NextMid ==
    \/ KeySpace
    \/ KeyA
    \/ TouchDown
    \/ StartButton
    \/ Tick
    \/ TimePasses

SpecMid == InitMid /\ [][NextMid]_vars

----------------------------------------------------------------------------
\* The collision test on chosen boxes.
\*
\* SpecBox starts from running games of score 0 whose first pipe and bird are
\* placed so that the tick of ShortDt frames that follows brings them to a chosen
\* relative position: the pipe's left edge at the bird's right edge, or its right
\* edge at the bird's left edge, or the pipe over the bird's column; the bird's
\* bottom at the top of the lower pipe, or its top at the bottom of the upper
\* pipe, or the bird inside the gap; each edge contact also one unit (1/80 px)
\* short of it and one unit past it.  The bird is rising just after a flap, or
\* falling five frames after one.

\* what the tick of ShortDt frames adds to a pipe's x (negative) and to the bird's y
TickDx == -(5 * EASY.PIPE_SPEED * ShortDt)

TickDy(v) == StepY(0, v, ShortDt)

\* one unit short of contact, contact, one unit past it
Near(c) == {c - 1, c, c + 1}

\* the pipe's x after the tick
BoxPipeX ==
    Near(Px(BIRD_X + BIRD_SIZE)) \cup Near(Px(BIRD_X - PIPE_WIDTH))
        \cup {Px(BIRD_X + 20)}

\* the bird's y after the tick, for a gap at gap_y
BoxBirdY(gap_y) ==
    Near(Px(gap_y)) \cup Near(Px(gap_y + EASY.PIPE_GAP - BIRD_SIZE))
        \cup {Px(gap_y + 100)}

\* the velocity just after a flap, and five frames later
BoxVelocity == {FLAP_VELOCITY, StepVelocity(FLAP_VELOCITY, 5)}

\* the distance between the two pre-spawned pipes of an easy start
BoxSpacing == Px((WINDOW_WIDTH * EASY.INITIAL_SPACING_MULT) \div 100)

InitBox ==
    \E g \in RandInt(PIPE_MIN_GAP_Y + 20, WINDOW_HEIGHT - EASY.PIPE_GAP - 40) :
    \E x \in BoxPipeX :
    \E y \in BoxBirdY(g) :
    \E v \in BoxVelocity :
        /\ running = TRUE
        /\ game_over = FALSE
        /\ score = 0
        /\ bird_y = y - TickDy(v)
        /\ velocity = v
        /\ pipes = << PipePair(1, x - TickDx, g, EASY.PIPE_GAP),
                      PipePair(2, x - TickDx + BoxSpacing, g, EASY.PIPE_GAP) >>
        /\ created = 2
        \* the time the first pipe took from x = WINDOW_WIDTH, rounded down
        /\ time_since_last_spawn = ((Px(WINDOW_WIDTH) - (x - TickDx)) * 5) \div 16
        /\ now = MaxNow - 2 * ClockStep
        /\ last_flap_time = now - (IF v = FLAP_VELOCITY THEN 0 ELSE Dt(5))
        /\ current_pipe_speed = 5 * EASY.PIPE_SPEED
        /\ current_pipe_gap = EASY.PIPE_GAP
        /\ current_spawn_interval = EASY.PIPE_SPAWN_INTERVAL
        /\ initial_spacing_mult = EASY.INITIAL_SPACING_MULT
        /\ autoplay = FALSE
        /\ splash_pending = FALSE
        \* a running game: the bird between floor and ceiling, clear of the pipes
        /\ bird_y > 0
        /\ ~CeilingHit(bird_y)
        /\ \A i \in 1..Len(pipes) :
               ~CollidesWith(pipes[i], Px(BIRD_X), bird_y, Px(BIRD_SIZE), Px(BIRD_SIZE))

SpecBox == InitBox /\ [][NextMid]_vars

----------------------------------------------------------------------------
\* The autopilot on a chosen scene.
\*
\* SpecAuto starts from running games with the autopilot on, placed so that the
\* tick of ShortDt frames that follows hands _autoflap_logic this scene: the bird
\* at rest (velocity 0) with its bottom, or its centre, at y = 300; the next pipe
\* with gap_size 200 and its gap centred on y = 300, one second away at the
\* current pipe speed.  The speed is the one of score 30, where pipes of gap 200
\* are built, or the easy one with pipes of gap 200 left by a restart.  The last
\* accepted flap is one or two clock steps old: inside or outside the debounce.

\* the heights of the bird's bottom in the scene
SceneBirdY == {Px(300), Px(300) - Px(BIRD_SIZE) \div 2}

\* the scores of the scene and the gap the game holds at each
SceneScores == {0, 30}

\* the next pipe's x before the tick: one second of travel from the bird's x after it
SceneX(speed) == Px(BIRD_X) + 16 * speed + speed * ShortDt

InitAuto ==
    \E y \in SceneBirdY :
    \E s \in SceneScores :
    \E old \in {ClockStep, 2 * ClockStep} :
        LET d == ApplyDifficulty(s) IN
        /\ running = TRUE
        /\ game_over = FALSE
        /\ score = s
        /\ bird_y = y
        /\ velocity = -((GRAVITY * ShortDt) \div 16)
        /\ pipes = << PipePair(s + 1, SceneX(d.speed), 200, HARD.PIPE_GAP),
                      PipePair(s + 2, SceneX(d.speed) + Px(SPAWN_SPACING), 200,
                               HARD.PIPE_GAP) >>
        /\ created = s + 2
        /\ time_since_last_spawn = 0
        /\ now = MaxNow - 2 * ClockStep
        /\ last_flap_time = now - old
        /\ current_pipe_speed = d.speed
        /\ current_pipe_gap = d.gap
        /\ current_spawn_interval = d.spawn_interval
        /\ initial_spacing_mult = d.spacing_mult
        /\ autoplay = TRUE
        /\ splash_pending = FALSE

SpecAuto == InitAuto /\ [][NextMid]_vars

----------------------------------------------------------------------------
\* Free fall.
\*
\* SpecFall is the game with nobody playing: the only events are the two that
\* start a run and the Clock's tick, which start_game schedules every 1/60 s
\* until end_game unschedules it (hence the weak fairness on the tick).  A tick
\* is FallDt frames of 1/16 s, the model's time grain.  The runs start from the
\* fresh game and from the games of MidStates, which fall to their end and are
\* restarted with the difficulty they had reached.

\* frames of 1/16 s in one tick of the falling game
FallDt == 1

FallTick == Update(FallDt)

InitFall == Init \/ InitMid

NextFall ==
    \/ StartGameAfterSplash
    \/ StartButton
    \/ FallTick

SpecFall == InitFall /\ [][NextFall]_vars /\ WF_vars(FallTick)

----------------------------------------------------------------------------
\* Properties.  Helpers first.

\* the set of pipes of a list
PipeSet(ps) == {ps[i] : i \in 1..Len(ps)}

\* a step taken by start_game: the list is the fresh pre-spawn
StartStep ==
    /\ running'
    /\ created' = 2
    /\ Len(pipes') = 2
    /\ pipes'[1].x = Px(WINDOW_WIDTH)
    /\ time_since_last_spawn' = 0

\* a flap was accepted in this step
FlapAccepted ==
    \/ last_flap_time' # last_flap_time
    \/ velocity' = FLAP_VELOCITY /\ velocity # FLAP_VELOCITY

\* C1: every accepted flap, manual or by the autopilot, comes at least
\* MIN_FLAP_INTERVAL after the previous accepted flap, whose time is
\* _last_flap_time; it stamps the current time and sets the velocity to
\* FLAP_VELOCITY.  Nothing else raises the velocity to FLAP_VELOCITY.
C1_FlapsAreSpaced ==
    [][FlapAccepted =>
          /\ now - last_flap_time >= MIN_FLAP_INTERVAL
          /\ last_flap_time' = now
          /\ velocity' = FLAP_VELOCITY]_vars

\* C1 witness: just after an accepted flap of a run with the autopilot on, with the
\* bird above the launch height, which only an earlier accepted flap can have caused
C1_Witness ==
    /\ running
    /\ autoplay
    /\ velocity = FLAP_VELOCITY
    /\ last_flap_time = now
    /\ bird_y > Px(LaunchY)

\* C2: a flap request (key or touch) made while running takes effect iff at least
\* MIN_FLAP_INTERVAL has passed since the last accepted flap: then the velocity
\* becomes FLAP_VELOCITY whatever it was and only the flap time changes with it;
\* otherwise nothing changes at all.
C2_FlapRequest ==
    [][(running /\ (KeySpace \/ TouchDown)) =>
          IF now - last_flap_time >= MIN_FLAP_INTERVAL
          THEN /\ velocity' = FLAP_VELOCITY
               /\ last_flap_time' = now
               /\ UNCHANGED <<running, game_over, score, bird_y, pipes, created,
                              time_since_last_spawn, now, params, autoplay,
                              splash_pending>>
          ELSE UNCHANGED vars]_vars

\* C2 witness: just after an accepted flap with the bird more than 150 px below the
\* launch height, that is, after a fall that had made the velocity strongly negative
C2_Witness ==
    /\ running
    /\ velocity = FLAP_VELOCITY
    /\ last_flap_time = now
    /\ bird_y < Px(LaunchY - 150)

\* the pipes that are marked scored after the step and were not before it
NewlyScored ==
    {p \in PipeSet(pipes') :
        p.scored /\ ~(\E q \in PipeSet(pipes) : q.id = p.id /\ q.scored)}

\* C3: in every step that is not a start, the score rises by the number of pipes
\* the step marks scored, each of them has its right edge left of the bird's x,
\* and no mark is ever taken back; a start sets the score to 0 with no pipe
\* marked.  So a pipe is counted once, and the score is the number of marks since
\* the last start.  A pipe is marked in the first scoring pass that finds its right
\* edge left of the bird's x: while the game runs, no pipe there is unmarked.
C3_ScoredOncePerPipe ==
    /\ [](running => \A p \in PipeSet(pipes) : Right(p) < Px(BIRD_X) => p.scored)
    /\ [][IF StartStep
          THEN /\ score' = 0
               /\ \A p \in PipeSet(pipes') : ~p.scored
          ELSE /\ score' = score + Cardinality(NewlyScored)
               /\ \A p \in NewlyScored : Right(p) < Px(BIRD_X)
               /\ \A q \in PipeSet(pipes) : \A p \in PipeSet(pipes') :
                      (q.id = p.id /\ q.scored) => p.scored]_vars

\* C3 witness: a running game with score 1 whose scored pipe is further left than
\* one tick can carry it past the bird's x: it has been through the scoring loop
\* at least twice
C3_Witness ==
    /\ running
    /\ score = 1
    /\ \E p \in PipeSet(pipes) :
           p.scored /\ Right(p) < Px(BIRD_X) - 5 * EASY.PIPE_SPEED * LongDt

\* C4: once the game is over, a step that is not a start command (the button, or
\* the app's start after the splash) leaves the phase and the whole simulation
\* state as they are: ticks and flap requests change nothing.
C4_EndedIsFrozen ==
    [][(game_over /\ ~StartButton /\ ~StartGameAfterSplash) =>
          UNCHANGED <<running, game_over, score, bird_y, velocity, pipes,
                      time_since_last_spawn>>]_vars

\* C4 witness: a game ended by a pipe with a point scored, at a moment when a flap
\* would pass the debounce
C4_Witness ==
    /\ game_over
    /\ ~running
    /\ score >= 1
    /\ velocity # 0
    /\ now - last_flap_time >= MIN_FLAP_INTERVAL

\* C5: a start from Idle or from Ended leaves the game running with score 0, the
\* bird at the launch height 268 with velocity 0, the spawn accumulator 0, and
\* exactly two unscored pipes, the first at x = 400 and the second one initial
\* spacing to its right.
C5_StartResets ==
    [][(~running /\ running') =>
          /\ ~game_over'
          /\ score' = 0
          /\ bird_y' = Px(268)
          /\ velocity' = 0
          /\ time_since_last_spawn' = 0
          /\ Len(pipes') = 2
          /\ ~pipes'[1].scored /\ ~pipes'[2].scored
          /\ pipes'[1].x = Px(400)
          /\ pipes'[2].x = Px(400) + (Px(400) * initial_spacing_mult) \div 100]_vars

\* C5 witness: a fresh start after a run in which a flap was accepted
C5_Witness ==
    /\ running
    /\ ~splash_pending
    /\ score = 0
    /\ time_since_last_spawn = 0
    /\ Len(pipes) = 2
    /\ pipes[1].x = Px(WINDOW_WIDTH)
    /\ bird_y = Px(LaunchY)
    /\ velocity = 0
    /\ last_flap_time > 0

\* the bird's box [100, 164] x [by, by + 64] has a point strictly inside one of the
\* two solid parts of pipe p
BirdOverlaps(p, by) ==
    /\ p.x < Px(BIRD_X + BIRD_SIZE)
    /\ p.x + Px(PIPE_WIDTH) > Px(BIRD_X)
    /\ \/ by < Px(p.gap_y)
       \/ by + Px(BIRD_SIZE) > Px(p.gap_y + p.gap_size)

\* C8: no running state has a pipe overlapping the bird, and a tick that ends the
\* game with the bird strictly between floor and ceiling leaves a pipe
\* overlapping it.
C8_OverlapEndsRun ==
    /\ [](running => \A p \in PipeSet(pipes) : ~BirdOverlaps(p, bird_y))
    /\ [][(running /\ ~running' /\ bird_y' > 0 /\ bird_y' < Px(WINDOW_HEIGHT - BIRD_SIZE))
             => \E p \in PipeSet(pipes') : BirdOverlaps(p, bird_y')]_vars

\* C8 witness: a game ended with the bird inside the upper part of a pipe
C8_Witness ==
    /\ game_over
    /\ \E p \in PipeSet(pipes) :
           /\ BirdOverlaps(p, bird_y)
           /\ bird_y + Px(BIRD_SIZE) > Px(p.gap_y + p.gap_size)

\* the claimed restart: the pre-spawn of a start from Ended uses the easy tuple
EasyPreSpawn ==
    /\ Len(pipes') = 2
    /\ pipes'[1].gap_size = 300
    /\ pipes'[2].gap_size = 300
    /\ pipes'[1].x = Px(400)
    /\ pipes'[2].x = Px(920)

\* C6: a restart from Ended pre-spawns as a start from Idle does: both pipes have
\* gap_size 300 and stand at x = 400 and x = 920, whatever score the previous run
\* reached.
C6_RestartUsesEasy ==
    [][(game_over /\ running') => EasyPreSpawn]_vars

\* the bird's height after physics_step over n frames, from the state before the tick
SteppedY(n) == bird_y + 5 * n * (velocity + (GRAVITY * n) \div 16)

\* C7: bird.y is within [0, 536] in every state and strictly inside while running;
\* a running tick whose physics step leaves the bird's bottom at or below 0 ends
\* the game with y = 0, one that leaves its top at or above 600 ends the game
\* with y = 536, and any other tick leaves the bird where the step put it.
C7_FloorAndCeiling ==
    /\ [](/\ bird_y >= 0
          /\ bird_y <= Px(536)
          /\ running => (bird_y > 0 /\ bird_y < Px(536)))
    /\ [][(running /\ Tick) =>
             \E n \in DtFrames :
                 /\ SteppedY(n) <= 0 =>
                        (game_over' /\ ~running' /\ bird_y' = 0)
                 /\ (SteppedY(n) > 0 /\ SteppedY(n) + Px(64) >= Px(600)) =>
                        (game_over' /\ ~running' /\ bird_y' = Px(536))
                 /\ (SteppedY(n) > 0 /\ SteppedY(n) + Px(64) < Px(600)) =>
                        bird_y' = SteppedY(n)]_vars

\* C7 witness: a game ended at the ceiling
C7_Witness ==
    /\ game_over
    /\ ~running
    /\ bird_y = Px(536)

\* the length of the common part of the intervals [a1, a2] and [b1, b2]; negative
\* when they are apart
CommonLength(a1, a2, b1, b2) == Min(a2, b2) - Max(a1, b1)

\* the box [bx, bx + bw] x [by, by + bh] and the rectangle [rx, rx2] x [ry, ry2]
\* share a region of positive area
PositiveArea(bx, by, bw, bh, rx, rx2, ry, ry2) ==
    /\ CommonLength(bx, bx + bw, rx, rx2) > 0
    /\ CommonLength(by, by + bh, ry, ry2) > 0

\* the box meets the lower or the upper solid part of pipe p in positive area
HitsSolid(p, bx, by, bw, bh) ==
    \/ PositiveArea(bx, by, bw, bh, p.x, p.x + Px(PIPE_WIDTH), 0, Px(p.gap_y))
    \/ PositiveArea(bx, by, bw, bh, p.x, p.x + Px(PIPE_WIDTH),
                    Px(p.gap_y + p.gap_size), Px(WINDOW_HEIGHT))

\* C9: for every pipe of the list and the bird's box, collides_with is true exactly
\* when the box meets the lower part [x, x+width] x [0, gap_y] or the upper part
\* [x, x+width] x [gap_y+gap_size, 600] in positive area; contact along an edge and
\* a box inside the gap band are no collision.
C9_StrictOverlap ==
    \A p \in PipeSet(pipes) :
        CollidesWith(p, Px(BIRD_X), bird_y, Px(BIRD_SIZE), Px(BIRD_SIZE))
            <=> HitsSolid(p, Px(BIRD_X), bird_y, Px(BIRD_SIZE), Px(BIRD_SIZE))

\* C9 witness: a game still running after a tick that left the bird's right edge on
\* a pipe's left edge, with the bird lower than the top of the lower pipe
C9_Witness ==
    /\ running
    /\ \E p \in PipeSet(pipes) :
           /\ p.x = Px(BIRD_X + BIRD_SIZE)
           /\ bird_y < Px(p.gap_y)

\* the largest score the difficulty curve is tabulated for
MaxScore == 100

\* the claimed curve, in the model's units: speed in fifths of px/s, the spawn
\* interval in 1/2000 s, the spacing multiplier in hundredths
DifficultyCurve(s) ==
    IF s < 30 THEN << 5 * 80, 300, 2000 * 4, 130 >>
    ELSE LET ramp50 == Min(50, Max(0, s - 30))
         IN  << 5 * 180 + 8 * ramp50,
                Max(60, 200 - ramp50),
                Max(1800, 4000 - 32 * ramp50),
                105 >>

\* C10: the parameters a running tick leaves are the claimed curve at the score the
\* tick began with; and for every score up to MaxScore _apply_difficulty gives the
\* claimed curve, whose speed at 30 is 180 and which is constant from 80 on.
C10_DifficultyCurve ==
    [][/\ (running /\ Tick) => params' = DifficultyCurve(score)
       /\ \A s \in 0..MaxScore :
              LET d == ApplyDifficulty(s)
              IN  /\ << d.speed, d.gap, d.spawn_interval, d.spacing_mult >>
                         = DifficultyCurve(s)
                  /\ s = 30 => d.speed = 5 * 180
                  /\ s >= 80 => d = ApplyDifficulty(80)]_vars

\* C10 witness: a running game of score 81 whose last tick began with score 80
C10_Witness ==
    /\ running
    /\ score = 81
    /\ params = << 5 * 260, 150, 2400, 105 >>

\* the scene of C11 is what a tick of n frames hands the autopilot: the bird at rest
\* with its bottom or its centre at 300, the first pipe ahead with gap_size 200
\* centred on 300 and one second away (16 * speed eightieths of a pixel)
SceneAfter(n) ==
    /\ running
    /\ autoplay
    /\ 16 * velocity + GRAVITY * n = 0
    /\ bird_y \in {Px(300), Px(268)}
    /\ pipes # << >>
    /\ LET speed == ApplyDifficulty(score).speed
           p == pipes[1]
       IN  /\ p.gap_size = 200
           /\ 2 * p.gap_y + p.gap_size = 2 * 300
           /\ p.x - speed * n - Px(100) = 16 * speed
           /\ time_since_last_spawn + Dt(n) < ApplyDifficulty(score).spawn_interval

\* C11 (as amended): on the scene the 0-flap prediction is plain free fall, 240 px
\* below the start, which is outside the band [206, 394]; no k qualifies and the
\* closest prediction is the one of k = 1, so the autopilot requests a flap: when
\* the debounce has passed the velocity becomes FLAP_VELOCITY.
C11_SceneChoosesOne ==
    [][\A n \in DtFrames :
          (SceneAfter(n) /\ Update(n)) =>
              LET speed == current_pipe_speed'
                  p == pipes'[1]
                  c0 == PredictCenterWithFlaps(bird_y', 0, p.x - Px(100), speed, 0)
              IN  /\ c0.int = 25 * bird_y' + 2000 * 32 - 2000 * 240
                  /\ c0.num = 0
                  /\ ChosenFlaps(bird_y', 0, p, speed) = 1
                  /\ now - last_flap_time >= MIN_FLAP_INTERVAL =>
                         (velocity' = FLAP_VELOCITY /\ last_flap_time' = now)]_vars

\* C11 as stated: on the scene the chosen k is 0 and the tick issues no flap.
C11_SceneChoosesZero ==
    [][\A n \in DtFrames :
          (SceneAfter(n) /\ Update(n)) =>
              (velocity' = 0 /\ last_flap_time' = last_flap_time)]_vars

\* C11 witness: the scene just after the autopilot's flap was accepted
C11_Witness ==
    /\ running
    /\ autoplay
    /\ velocity = FLAP_VELOCITY
    /\ last_flap_time = now
    /\ bird_y = Px(300)
    /\ pipes # << >>
    /\ pipes[1].gap_size = 200
    /\ pipes[1].gap_y = 200
    /\ pipes[1].x - Px(100) = 16 * current_pipe_speed

\* a run that start_game began and that has spawned nothing since
FreshRun == running /\ created = 2

\* C12: a run that is started and then only ticked, with no flap and the autopilot
\* off, free-falls (each tick adds GRAVITY * dt to the velocity and scores nothing)
\* and after finitely many ticks is Ended by the floor: game_over with the bird
\* clamped at y = 0 and score 0, no pre-spawned pipe having passed the bird.
C12_FreeFallEndsOnFloor ==
    /\ [](FreshRun => ~autoplay /\ score = 0 /\ velocity <= 0)
    /\ [][(FreshRun /\ FallTick) =>
             /\ score' = 0
             /\ \A i \in 1..Len(pipes') : ~pipes'[i].scored
             /\ IF running'
                   THEN 16 * (velocity' - velocity) = GRAVITY * FallDt
                   ELSE game_over' /\ bird_y' = 0]_vars
    /\ FreshRun ~> (game_over /\ ~running /\ bird_y = 0 /\ score = 0)

\* C12 witness: a restarted run, pre-spawned with the narrow gap of the game before
\* it, lies Ended on the floor with nothing scored
C12_Witness ==
    /\ game_over
    /\ ~running
    /\ bird_y = 0
    /\ score = 0
    /\ velocity < 0
    /\ created = 2
    /\ pipes[1].gap_size < EASY.PIPE_GAP
    /\ pipes[1].x < Px(WINDOW_WIDTH)
    /\ pipes[1].x > Px(BIRD_X + BIRD_SIZE)

\* C13 (as amended): the autopilot toggle always flips the flag and never touches
\* the difficulty, the last-flap time or the clock; in Running and in Ended it
\* changes nothing else, but in Idle (no run yet) turning the autopilot on also
\* starts a run: Running, score 0, the bird at rest at the launch height, the two
\* pre-spawned pipes.
C13_ToggleStartsFromIdle ==
    [][KeyA =>
          /\ autoplay' = ~autoplay
          /\ UNCHANGED <<params, last_flap_time, now, splash_pending>>
          /\ IF running \/ game_over
                THEN UNCHANGED <<running, game_over, score, bird_y, velocity,
                                 pipes, created, time_since_last_spawn>>
                ELSE /\ autoplay'
                     /\ running' /\ ~game_over'
                     /\ score' = 0
                     /\ bird_y' = Px(268) /\ velocity' = 0
                     /\ Len(pipes') = 2 /\ created' = 2
                     /\ time_since_last_spawn' = 0]_vars

\* C13 as stated: in every phase the toggle leaves the phase, the score, the bird
\* and the pipes as they are.
C13_ToggleIsPureFlip ==
    [][KeyA => UNCHANGED <<running, game_over, score, bird_y, velocity, pipes>>]_vars

\* C13 witness: the splash is still up, no tick has run and no flap was accepted,
\* and the game is Running with the autopilot on, as the toggle in Idle leaves it
C13_Witness ==
    /\ running
    /\ autoplay
    /\ splash_pending
    /\ last_flap_time = 0
    /\ time_since_last_spawn = 0
    /\ Len(pipes) = 2
    /\ pipes[1].x = Px(WINDOW_WIDTH)

\* C14: the pipe list is always in spawn order and sorted by x: of two pipes the
\* one spawned first stands first in the list and has the strictly smaller x.
C14_PipesSortedByX ==
    \A i, j \in 1..Len(pipes) :
        i < j => (pipes[i].id < pipes[j].id /\ pipes[i].x < pipes[j].x)

\* C14 witness: a run of MidStates that has since advanced, culled the pipe at
\* the head of its list and spawned a pipe at the tail
C14_Witness ==
    /\ running
    /\ Len(pipes) >= 2
    /\ \E c \in MidStates :
          /\ score >= c.score
          /\ created > c.created
          /\ created <= c.created + 3
          /\ pipes[1].id > c.pipes[1].id
          /\ pipes[Len(pipes)].id = created
          /\ pipes[1].x < c.pipes[2].x

\* the tick of n frames passes the floor and ceiling checks
PassesBounds(n) == SteppedY(n) > 0 /\ SteppedY(n) + Px(64) < Px(600)

\* the x of the pipes still live after a tick of n frames at the speed the tick
\* sets: moved left, and dropped once the right edge is left of -50
LiveX(n) ==
    {x \in {p.x - current_pipe_speed' * n : p \in PipeSet(pipes)} :
        x + Px(48) >= Px(-50)}

\* C15: a running tick that passes the bounds checks spawns exactly when the
\* accumulator plus dt has reached the spawn interval of the tick; it then appends
\* one pipe at max(420, rightmost live x + 280), 420 if no pipe is live, and
\* resets the accumulator to 0; otherwise the list gains nothing and the
\* accumulator has grown by dt.
C15_SpawnRule ==
    [][\A n \in DtFrames :
          (running /\ Update(n) /\ PassesBounds(n)) =>
              LET acc == time_since_last_spawn + 125 * n
                  xs == {pipes'[i].x : i \in 1..Len(pipes')}
                  rightmost == IF LiveX(n) = {} THEN 0
                               ELSE CHOOSE x \in LiveX(n) : \A z \in LiveX(n) : z <= x
                  at == IF rightmost + Px(280) > Px(420) THEN rightmost + Px(280)
                        ELSE Px(420)
              IN  IF acc >= current_spawn_interval'
                     THEN /\ Len(pipes') = Cardinality(LiveX(n)) + 1
                          /\ xs = LiveX(n) \cup {at}
                          /\ pipes'[Len(pipes')].x = at
                          /\ pipes'[Len(pipes')].id = created + 1
                          /\ created' = created + 1
                          /\ time_since_last_spawn' = 0
                     ELSE /\ Len(pipes') = Cardinality(LiveX(n))
                          /\ xs = LiveX(n)
                          /\ created' = created
                          /\ time_since_last_spawn' = acc]_vars

\* C15 witness: the tick has just spawned and reset the accumulator, and the new
\* pipe stands 280 px right of the one before it, beyond 420
C15_Witness ==
    /\ running
    /\ time_since_last_spawn = 0
    /\ created >= 3
    /\ Len(pipes) >= 2
    /\ pipes[Len(pipes)].id = created
    /\ pipes[Len(pipes)].x = pipes[Len(pipes) - 1].x + Px(280)
    /\ pipes[Len(pipes)].x > Px(420)

\* the gap size g leaves both random ranges non-empty: the pre-spawn's
\* randint(80, 560 - g) and the spawn's randint(70, 570 - g)
RangesNonEmpty(g) == 80 <= 600 - g - 40 /\ 70 <= 600 - g - 30

\* C16: every pipe of every list has gap_size > 0 and its gap band inside the
\* margins, gap_y >= 70 and gap_y + gap_size <= 570, so that both solid parts have
\* positive height; and the gap the game holds, like the gap of every score up to
\* MaxScore, is positive and leaves the ranges the gap position is drawn from
\* non-empty.
C16_GapInsideMargins ==
    /\ \A i \in 1..Len(pipes) :
          /\ pipes[i].gap_size > 0
          /\ pipes[i].gap_y >= 70
          /\ pipes[i].gap_y + pipes[i].gap_size <= 570
          /\ pipes[i].gap_y > 0
          /\ 600 - (pipes[i].gap_y + pipes[i].gap_size) > 0
    /\ current_pipe_gap > 0
    /\ RangesNonEmpty(current_pipe_gap)
    /\ \A s \in 0..MaxScore :
          ApplyDifficulty(s).gap > 0 /\ RangesNonEmpty(ApplyDifficulty(s).gap)

\* C16 witness: a list holding a spawned pipe whose narrow gap touches the top
\* margin and, after a restart, a pre-spawned pipe of the narrow gap left by the
\* game before at the bottom of its range
C16_Witness ==
    \/ /\ running
       /\ created > 2
       /\ \E i \in 1..Len(pipes) :
             /\ pipes[i].gap_size < HARD.PIPE_GAP
             /\ pipes[i].gap_y + pipes[i].gap_size = 570
             /\ pipes[i].id = created
             /\ pipes[i].id >= 82
    \/ /\ running
       /\ created = 2
       /\ pipes[1].gap_size < HARD.PIPE_GAP
       /\ pipes[1].gap_y = 80
       /\ pipes[2].gap_y + pipes[2].gap_size = 560

\* C17 as stated: a tick that leaves the game running has moved the bird by the
\* closed form of constant acceleration, y' = y + v*dt + 0.5*g*dt^2 (in eightieths
\* of a pixel, with dt = n/16 s: 5*n*v - 75*n*n), as the predictor does between
\* events, and has added g*dt to the velocity if no flap intervened.
C17_ClosedFormStep ==
    [][\A n \in DtFrames :
          (running /\ Update(n) /\ running') =>
              /\ bird_y' = bird_y + 5 * n * velocity - 75 * n * n
              /\ bird_y' * 25 = FlapEventY(bird_y * 25, velocity, Dt(n))
              /\ ~autoplay => 16 * (velocity' - velocity) = GRAVITY * n]_vars

\* the predicted centre for k flaps, in 1/2000 px, for the bird at height y with
\* velocity v and the pipe p ahead
Predicted(y, v, p, speed, k) == PredictCenterWithFlaps(y, v, p.x - Px(100), speed, k)

\* the centre of p's gap in 1/2000 px
GapCenter(p) == 2000 * p.gap_y + 1000 * p.gap_size

\* the k with a prediction in [gap_center - gap_half + 6, gap_center + gap_half - 6]
InBand(y, v, p, speed) ==
    {k \in 0..3 :
        LET c == Predicted(y, v, p, speed, k)
            lo == GapCenter(p) - 1000 * p.gap_size + 2000 * 6
            hi == GapCenter(p) + 1000 * p.gap_size - 2000 * 6
        IN  lo <= c.int /\ (c.int < hi \/ (c.int = hi /\ c.num = 0))}

\* the k closest to the gap centre, the smallest of them on a tie
Closest(y, v, p, speed) ==
    LET far(k) == FracAbsDiff(Predicted(y, v, p, speed, k), GapCenter(p))
    IN  CHOOSE k \in 0..3 :
            \A j \in 0..3 : /\ ~FracLess(far(j), far(k))
                            /\ (j < k => FracLess(far(k), far(j)))

\* the claimed choice: the smallest k in the band, else the closest
ClaimedK(y, v, p, speed) ==
    IF InBand(y, v, p, speed) # {}
    THEN CHOOSE k \in InBand(y, v, p, speed) : \A j \in InBand(y, v, p, speed) : k <= j
    ELSE Closest(y, v, p, speed)

\* the autopilot decides in this tick of n frames: autopilot on, a run in progress
\* past the bounds checks, a positive speed and a pipe whose right edge is ahead
AutopilotDecides(n) ==
    /\ running
    /\ autoplay
    /\ Update(n)
    /\ PassesBounds(n)
    /\ current_pipe_speed' > 0
    /\ \E i \in 1..Len(pipes') : pipes'[i].x + Px(48) > Px(100)

\* the pipe the autopilot looks at after the tick's move and spawn
PipeAhead ==
    LET ahead == {i \in 1..Len(pipes') : pipes'[i].x + Px(48) > Px(100)}
    IN  pipes'[CHOOSE i \in ahead : \A j \in ahead : i <= j]

C19_OverlapTickScoresNothing ==
    [][\A n \in DtFrames :
          (running /\ Update(n) /\ PassesBounds(n) /\ ~running') =>
              /\ game_over'
              /\ score' = score
              /\ \A q \in PipeSet(pipes') :
                     \A p \in PipeSet(pipes) : p.id = q.id => q.scored = p.scored]_vars

\* C19 witness: a game ended by the lower part of a pipe it has not passed, the
\* bird strictly between floor and ceiling, the score and the flags as they were
C19_Witness ==
    /\ game_over
    /\ ~running
    /\ bird_y > 0
    /\ bird_y < Px(WINDOW_HEIGHT - BIRD_SIZE)
    /\ \E p \in PipeSet(pipes) :
           /\ BirdOverlaps(p, bird_y)
           /\ bird_y < Px(p.gap_y)
           /\ ~p.scored
           /\ p.id = score + 1

\* C20 as stated: a tick that ends the run, by the floor, the ceiling or a pipe,
\* has issued no autopilot flap: the velocity it leaves is the one of its physics
\* step and the last-flap time is as before.
C20_NoFlapInEndingTick ==
    [][\A n \in DtFrames :
          (running /\ Update(n) /\ ~running') =>
              /\ 16 * (velocity' - velocity) = GRAVITY * n
              /\ last_flap_time' = last_flap_time]_vars

\* C21: when the autopilot decides and the pipe it looks at has its left edge at or
\* left of the bird's x (time_to_pipe <= 0), no flap event is scheduled for any k,
\* the four predictions are equal, the choice is k = 0, and the tick leaves the
\* stepped velocity and the last-flap time alone, wherever the bird is.
C21_NoFlapLevelWithPipe ==
    [][\A n \in DtFrames :
          (AutopilotDecides(n) /\ PipeAhead.x <= Px(100)) =>
              LET v1 == velocity + (GRAVITY * n) \div 16
                  speed == current_pipe_speed'
              IN  /\ \A k \in 0..3 :
                         /\ FlapEvents(PipeAhead.x - Px(100), speed, k) = {}
                         /\ Predicted(bird_y', v1, PipeAhead, speed, k)
                                = Predicted(bird_y', v1, PipeAhead, speed, 0)
                  /\ ChosenFlaps(bird_y', v1, PipeAhead, speed) = 0
                  /\ velocity' = v1
                  /\ last_flap_time' = last_flap_time]_vars

\* C21 witness: an autopilot run after a tick, the bird inside a pipe's gap with
\* the pipe's left edge behind its x, falling, the debounce long elapsed
C21_Witness ==
    /\ running
    /\ autoplay
    /\ time_since_last_spawn > 0
    /\ velocity < 0
    /\ now - last_flap_time >= MIN_FLAP_INTERVAL
    /\ \E p \in PipeSet(pipes) :
           /\ p.x <= Px(BIRD_X)
           /\ p.x + Px(PIPE_WIDTH) > Px(BIRD_X)

\* the pipes of the list after the step that were not scored before it
ScoredByStep ==
    {q \in PipeSet(pipes') :
        /\ q.scored
        /\ \A p \in PipeSet(pipes) : p.id = q.id => ~p.scored}

\* C22: any two pipes of the list are at least 280 px apart in x, at most one
\* unscored pipe has its right edge behind the bird's x, and no step raises the
\* score by more than 1 or marks more than one pipe as scored.
C22_OnePipePerTick ==
    /\ [](/\ \A i, j \in 1..Len(pipes) :
                i < j => pipes[j].x - pipes[i].x >= Px(280)
          /\ Cardinality({i \in 1..Len(pipes) :
                            pipes[i].x + Px(48) < Px(100)}) <= 1)
    /\ [][/\ score' <= score + 1
          /\ (running /\ Tick) => Cardinality(ScoredByStep) <= 1
          /\ (running /\ Tick) => score' = score + Cardinality(ScoredByStep)]_vars

\* C22 witness: a run that has scored holds two pipes exactly 280 px apart, the
\* later one spawned during the run
C22_Witness ==
    /\ running
    /\ score >= 1
    /\ Len(pipes) >= 2
    /\ pipes[Len(pipes)].id >= 3
    /\ pipes[Len(pipes)].x - pipes[Len(pipes) - 1].x = Px(280)
    /\ \E i \in 1..Len(pipes) : pipes[i].scored

============================================================================
